---- MODULE Spec2Model ----
(***************************************************************************)
(* Model of src/app.py: a Flask webhook (POST /api/messages, GET /health,  *)
(* GET /) in front of TranslationBot, a Bot Framework ActivityHandler that *)
(* picks a target language by a Unicode range test and forwards the text   *)
(* to the Azure Translator REST API.                                       *)
(*                                                                         *)
(* Text handled by the bot is a sequence of Unicode code points (Nat).     *)
(* Text produced by the bot is a sequence of string parts, the pieces an   *)
(* f-string concatenates.                                                  *)
(***************************************************************************)
EXTENDS Integers, Sequences, FiniteSets, TLC

VARIABLES
    pc,                 \* "boot" | "declined" | "serving" | "unit"
    TRANSLATOR_KEY,     \* app.py:19, os.environ.get("AZURE_TRANSLATOR_KEY")
    translator_client,  \* app.py:30, bot.translator_client: "Session" | "None"
    startLog,           \* what the __main__ block logged
    handled,            \* number of HTTP requests the listener has handled
    request,            \* the last HTTP request (its consumed inputs)
    response,           \* what the last request's view function did
    unit                \* the last direct call of a bot method

vars == <<pc, TRANSLATOR_KEY, translator_client, startLog, handled,
          request, response, unit>>

----------------------------------------------------------------------------
(* Bounds of the model *)

\* longest argument of a direct _detect_language_and_get_target call
MaxLen == 3
\* longest members_added list
MaxMembers == 2
\* requests handled in one run of the listener
MaxRequests == 2

----------------------------------------------------------------------------
(* Python str primitives on code-point sequences *)

\* U+0D80, lower end of the range tested at app.py:80
SinhalaLo == 3456
\* U+0DFF, upper end of the range tested at app.py:80
SinhalaHi == 3583

\* str.isspace() for one code point: what str.strip() removes (app.py:89)
IsSpace(c) ==
    c \in ({9, 10, 11, 12, 13, 28, 29, 30, 31, 32, 133, 160, 5760,
            8232, 8233, 8239, 8287, 12288} \cup (8192..8202))

RECURSIVE LStrip(_)
LStrip(s) ==
    IF s = <<>> THEN <<>>
    ELSE IF IsSpace(Head(s)) THEN LStrip(Tail(s)) ELSE s

RECURSIVE RStrip(_)
RStrip(s) ==
    IF s = <<>> THEN <<>>
    ELSE IF IsSpace(s[Len(s)]) THEN RStrip(SubSeq(s, 1, Len(s) - 1)) ELSE s

\* str.strip() with no argument
Strip(s) == RStrip(LStrip(s))

\* str.lower() of one code point: ASCII capitals, and the two non-ASCII
\* code points whose lower case is ASCII or starts with ASCII (KELVIN SIGN,
\* LATIN CAPITAL LETTER I WITH DOT ABOVE); every other code point the model
\* uses is caseless
LowerChar(c) ==
    IF c \in 65..90 THEN <<c + 32>>
    ELSE IF c = 8490 THEN <<107>>
    ELSE IF c = 304 THEN <<105, 775>>
    ELSE <<c>>

RECURSIVE Lower(_)
Lower(s) == IF s = <<>> THEN <<>> ELSE LowerChar(Head(s)) \o Lower(Tail(s))

\* ['/help', 'help', '/translate help'], app.py:96
HelpKeywords ==
    { <<47, 104, 101, 108, 112>>,
      <<104, 101, 108, 112>>,
      <<47, 116, 114, 97, 110, 115, 108, 97, 116, 101, 32, 104, 101, 108, 112>> }

\* the literal of app.py:92
PromptText == <<"Please send some text to translate!">>
\* the literal of app.py:97-112
HelpText == <<"**Translation Bot Help** ...">>
\* the literal of app.py:131-139
WelcomeText == <<"**Welcome to Translation Bot!** ...">>
\* the literal of app.py:44
NotConfiguredText == <<"Translation service not configured">>

----------------------------------------------------------------------------
(* TranslationBot._detect_language_and_get_target, app.py:77-85 *)

\* the range test with the upper end left out
SinhalaCharsExclusive(text) ==
    \E i \in 1..Len(text) : SinhalaLo <= text[i] /\ text[i] < SinhalaHi

\* any(U+0D80 <= char <= U+0DFF for char in text), app.py:80
SinhalaChars(text) ==
    \E i \in 1..Len(text) : SinhalaLo <= text[i] /\ text[i] <= SinhalaHi

DetectLanguageAndGetTarget(text) ==
    IF SinhalaChars(text) THEN "en" ELSE "si"

----------------------------------------------------------------------------
(* The translation provider's answer to one POST, as requests sees it.     *)
(* A JSON value is tagged: "arr" (v a sequence), "obj" (v a record),       *)
(* "str" (v a string), "null".                                             *)

JArr(v) == [t |-> "arr", v |-> v]
JObj(v) == [t |-> "obj", v |-> v]
JStr(v) == [t |-> "str", v |-> v]
JNull == [t |-> "null", v |-> ""]
NotJson == [t |-> "notjson", v |-> ""]

UpstreamIds ==
    { "conn_error", "timeout", "http_500", "http_401", "not_json",
      "empty_array", "error_object", "no_translations", "empty_translations",
      "null_body", "bad_detected", "ok", "ok_no_detected" }

\* what self.translator_client.post(...) does for each upstream outcome
Upstream(id) ==
    CASE id = "conn_error" ->
           [transport |-> "ConnectionError", status |-> 0, body |-> NotJson]
      [] id = "timeout" ->
           [transport |-> "Timeout", status |-> 0, body |-> NotJson]
      [] id = "http_500" ->
           [transport |-> "ok", status |-> 500, body |-> NotJson]
      [] id = "http_401" ->
           [transport |-> "ok", status |-> 401,
            body |-> JObj([error |-> JObj([code |-> JStr("401000")])])]
      [] id = "not_json" ->
           [transport |-> "ok", status |-> 200, body |-> NotJson]
      [] id = "empty_array" ->
           [transport |-> "ok", status |-> 200, body |-> JArr(<<>>)]
      [] id = "error_object" ->
           [transport |-> "ok", status |-> 200,
            body |-> JObj([error |-> JStr("quota")])]
      [] id = "no_translations" ->
           [transport |-> "ok", status |-> 200,
            body |-> JArr(<<JObj([detectedLanguage |->
                                    JObj([language |-> JStr("en")])])>>)]
      [] id = "empty_translations" ->
           [transport |-> "ok", status |-> 200,
            body |-> JArr(<<JObj([translations |-> JArr(<<>>)])>>)]
      [] id = "null_body" ->
           [transport |-> "ok", status |-> 200, body |-> JNull]
      [] id = "bad_detected" ->
           [transport |-> "ok", status |-> 200,
            body |-> JArr(<<JObj([translations |->
                                    JArr(<<JObj([text |-> JStr("X")])>>),
                                  detectedLanguage |-> JStr("en")])>>)]
      [] id = "ok" ->
           [transport |-> "ok", status |-> 200,
            body |-> JArr(<<JObj([translations |->
                                    JArr(<<JObj([text |-> JStr("X")])>>),
                                  detectedLanguage |->
                                    JObj([language |-> JStr("en")])])>>)]
      [] id = "ok_no_detected" ->
           [transport |-> "ok", status |-> 200,
            body |-> JArr(<<JObj([translations |->
                                    JArr(<<JObj([text |-> JStr("X")])>>)])>>)]

\* the outcome of one Python expression: a value, or a raised exception
Ok(v) == [cls |-> "None", msg |-> "", val |-> v]
Raise(c, m) == [cls |-> c, msg |-> m, val |-> JNull]

\* j[0]
GetItem0(j) ==
    CASE j.t = "arr" ->
           IF Len(j.v) >= 1 THEN Ok(j.v[1])
           ELSE Raise("IndexError", "list index out of range")
      [] j.t = "obj" -> Raise("KeyError", "0")
      [] j.t = "str" ->
           IF j.v = "" THEN Raise("IndexError", "string index out of range")
           ELSE Ok(JStr("c"))
      [] OTHER -> Raise("TypeError", "'NoneType' object is not subscriptable")

\* j[k] for a str key k
GetItemKey(j, k) ==
    CASE j.t = "obj" ->
           IF k \in DOMAIN j.v THEN Ok(j.v[k]) ELSE Raise("KeyError", k)
      [] j.t = "arr" ->
           Raise("TypeError", "list indices must be integers or slices, not str")
      [] j.t = "str" -> Raise("TypeError", "string indices must be integers")
      [] OTHER -> Raise("TypeError", "'NoneType' object is not subscriptable")

\* j.get(k, default)
DictGet(j, k, default) ==
    IF j.t = "obj"
    THEN Ok(IF k \in DOMAIN j.v THEN j.v[k] ELSE default)
    ELSE Raise("AttributeError", "object has no attribute 'get'")

\* a value inside an f-string
Format(j) == IF j.t = "str" THEN j.v ELSE "repr"

\* response.raise_for_status(), app.py:65
RaiseForStatus(status) == 400 <= status /\ status < 600

\* the f-string of app.py:71; its arrow character is written " -> " here
Translated(target_language, tx, lg) ==
    IF lg.cls # "None" THEN lg
    ELSE [cls |-> "None", msg |-> "",
          val |-> <<"**Translated** (", Format(lg.val), " -> ",
                    target_language, "):\n", Format(tx.val)>>]

\* .get('language', 'unknown') on what .get('detectedLanguage', {}) gave
DetectedLanguage(target_language, tx, dl) ==
    IF dl.cls # "None" THEN dl
    ELSE Translated(target_language, tx,
                    DictGet(dl.val, "language", JStr("unknown")))

\* app.py:69, once translated_text is bound
AfterText(target_language, r0, tx) ==
    IF tx.cls # "None" THEN tx
    ELSE DetectedLanguage(target_language, tx,
                          DictGet(r0.val, "detectedLanguage",
                                  JObj([none |-> JNull])))

\* ...[0]['text'] of app.py:68
AfterTranslations0(target_language, r0, t0) ==
    IF t0.cls # "None" THEN t0
    ELSE AfterText(target_language, r0, GetItemKey(t0.val, "text"))

\* ...['translations'][0] of app.py:68
AfterTranslations(target_language, r0, tr) ==
    IF tr.cls # "None" THEN tr
    ELSE AfterTranslations0(target_language, r0, GetItem0(tr.val))

\* result[0]['translations'] of app.py:68
AfterResult0(target_language, r0) ==
    IF r0.cls # "None" THEN r0
    ELSE AfterTranslations(target_language, r0,
                           GetItemKey(r0.val, "translations"))

\* app.py:64-67: the POST, raise_for_status(), response.json()
AfterPost(target_language, r) ==
    IF r.transport # "ok" THEN Raise(r.transport, "connection failed")
    ELSE IF RaiseForStatus(r.status) THEN Raise("HTTPError", "HTTP error status")
    ELSE IF r.body.t = "notjson" THEN Raise("JSONDecodeError", "Expecting value")
    ELSE AfterResult0(target_language, GetItem0(r.body))

\* the body of the try block, app.py:47-71
TryBlock(target_language, up) == AfterPost(target_language, Upstream(up))

\* subclasses of Exception among what the try block can raise
ExceptionSubclasses ==
    { "ConnectionError", "Timeout", "HTTPError", "JSONDecodeError",
      "KeyError", "IndexError", "TypeError", "AttributeError" }

\* a handler that names only the transport's exception type
ExceptRequestException(e) == e.cls \in {"ConnectionError", "Timeout", "HTTPError"}

\* "except Exception as e", app.py:73
ExceptClause(e) == e.cls \in ExceptionSubclasses

\* "not TRANSLATOR_KEY": None and '' are falsy
Falsy(key) == ~key.set \/ key.val = ""

\* "not self.translator_client or not TRANSLATOR_KEY", app.py:43
NotConfigured(client, key) == client = "None" \/ Falsy(key)

\* one outbound POST, app.py:48-64
PostCall(key, text, target_language) ==
    [path |-> "/translate", to |-> target_language, key |-> key.val,
     text |-> text]

\* a try block that sends the POST again after an exception
ReturnOrRetry(r, p) ==
    IF r.cls = "None"
    THEN [ret |-> r.val, raised |-> "None", posts |-> <<p>>]
    ELSE [ret |-> <<"Sorry, translation failed: ", r.msg>>,
          raised |-> "None", posts |-> <<p, p>>]

\* app.py:71-75: the return of the try block, or of the except clause; p is
\* the POST the try block made
ReturnOrExcept(r, p) ==
    IF r.cls = "None"
    THEN [ret |-> r.val, raised |-> "None", posts |-> <<p>>]
    ELSE IF ExceptClause(r)
    THEN [ret |-> <<"Sorry, translation failed: ", r.msg>>,
          raised |-> "None", posts |-> <<p>>]
    ELSE [ret |-> <<>>, raised |-> r.cls, posts |-> <<p>>]

\* TranslationBot.translate_text, app.py:41-75: the returned string, the
\* exception that leaves the coroutine ("None" when it returns), and the
\* outbound POSTs it made
TranslateText(client, key, text, target_language, up) ==
    IF NotConfigured(client, key)
    THEN [ret |-> NotConfiguredText, raised |-> "None", posts |-> <<>>]
    ELSE ReturnOrExcept(TryBlock(target_language, up),
                        PostCall(key, text, target_language))

----------------------------------------------------------------------------
(* Events: the calls a handler makes that leave it, in order.  Every event *)
(* has the same fields; the ones a call does not use are empty.            *)

\* turn_context.send_activity(...); ok is FALSE when the call raised
SendEvent(kind, text, ok) ==
    [op |-> "send_activity", kind |-> kind, text |-> text, arg |-> <<>>,
     target |-> "", ok |-> ok]

\* self._detect_language_and_get_target(arg) returned target
DetectEvent(arg, target) ==
    [op |-> "detect", kind |-> "", text |-> <<>>, arg |-> arg,
     target |-> target, ok |-> TRUE]

\* self.translate_text(arg, target) returned text
TranslateEvent(arg, target, text) ==
    [op |-> "translate_text", kind |-> "", text |-> text, arg |-> arg,
     target |-> target, ok |-> TRUE]

\* self.translator_client.post(...) with json=[{'text': arg}], to=target
PostEvent(p) ==
    [op |-> "post", kind |-> "", text |-> <<>>, arg |-> p.text,
     target |-> p.to, ok |-> TRUE]

PostEvents(posts) == [i \in 1..Len(posts) |-> PostEvent(posts[i])]

\* the exception a failed delivery raises out of send_activity
SendError == "SendActivityError"

----------------------------------------------------------------------------
(* TranslationBot.on_message_activity, app.py:87-127.  sendFailAt is the   *)
(* number of the send_activity call that raises (0: none does).            *)

\* the help branch skipped
IsHelpNever(user_message) == FALSE

\* user_message.lower() in ['/help', 'help', '/translate help'], app.py:96
IsHelp(user_message) == Lower(user_message) \in HelpKeywords

\* the reply sent and the typing indicator after it
ReplyThenTyping(det, user_message, target_language, t, sendFailAt) ==
    [events |-> det \o <<TranslateEvent(user_message, target_language, t.ret)>>
                    \o PostEvents(t.posts)
                    \o <<SendEvent("message", t.ret, TRUE),
                         SendEvent("typing", <<>>, TRUE)>>,
     raised |-> "None"]

\* app.py:124-127, after the typing indicator went out: t is what
\* translate_text did
TypingThenReply(det, user_message, target_language, t, sendFailAt) ==
    IF t.raised # "None"
    THEN [events |-> det \o <<SendEvent("typing", <<>>, TRUE),
                              TranslateEvent(user_message, target_language, t.ret)>>
                         \o PostEvents(t.posts),
          raised |-> t.raised]
    ELSE [events |-> det \o <<SendEvent("typing", <<>>, TRUE),
                              TranslateEvent(user_message, target_language, t.ret)>>
                         \o PostEvents(t.posts)
                         \o <<SendEvent("message", t.ret, sendFailAt # 2)>>,
          raised |-> IF sendFailAt = 2 THEN SendError ELSE "None"]

\* app.py:120-127, once target_language is bound
Translate(user_message, target_language, client, key, sendFailAt, up) ==
    IF sendFailAt = 1
    THEN [events |-> <<DetectEvent(user_message, target_language),
                       SendEvent("typing", <<>>, FALSE)>>,
          raised |-> SendError]
    ELSE TypingThenReply(<<DetectEvent(user_message, target_language)>>,
                         user_message, target_language,
                         TranslateText(client, key, user_message,
                                       target_language, up),
                         sendFailAt)

\* app.py:116-127
TranslateBranch(user_message, client, key, sendFailAt, up) ==
    Translate(user_message, DetectLanguageAndGetTarget(user_message),
              client, key, sendFailAt, up)

\* app.py:89-114, once user_message is bound
Dispatch(user_message, client, key, sendFailAt, up) ==
    IF user_message = <<>>
    THEN [events |-> <<SendEvent("message", PromptText, sendFailAt # 1)>>,
          raised |-> IF sendFailAt = 1 THEN SendError ELSE "None"]
    ELSE IF IsHelp(user_message)
    THEN [events |-> <<SendEvent("message", HelpText, sendFailAt # 1)>>,
          raised |-> IF sendFailAt = 1 THEN SendError ELSE "None"]
    ELSE TranslateBranch(user_message, client, key, sendFailAt, up)

\* user_message taken without trimming
NoStrip(text) == text

\* turn_context.activity.text.strip(), app.py:89
UserMessage(text) == Strip(text)

OnMessageActivity(activity, client, key, sendFailAt, up) ==
    IF activity.textNone
    THEN \* None.strip()
         [events |-> <<>>, raised |-> "AttributeError"]
    ELSE Dispatch(UserMessage(activity.text), client, key, sendFailAt, up)

\* the number of send_activity calls on_message_activity makes when none raises
NSends(activity) ==
    IF activity.textNone THEN 0
    ELSE IF UserMessage(activity.text) = <<>>
            \/ IsHelp(UserMessage(activity.text)) THEN 1
    ELSE 2

\* whether on_message_activity reaches translate_text when no send raises
ReachesTranslate(activity) == NSends(activity) = 2

----------------------------------------------------------------------------
(* TranslationBot.on_members_added_activity, app.py:129-143 *)

RECURSIVE WelcomeLoop(_, _, _, _)
WelcomeLoop(members, recipient, sendFailAt, nSent) ==
    IF members = <<>> THEN [events |-> <<>>, raised |-> "None"]
    ELSE IF Head(members) # recipient
    THEN IF sendFailAt = nSent + 1
         THEN [events |-> <<SendEvent("message", WelcomeText, FALSE)>>,
               raised |-> SendError]
         ELSE LET rest == WelcomeLoop(Tail(members), recipient, sendFailAt,
                                      nSent + 1)
              IN  [events |-> <<SendEvent("message", WelcomeText, TRUE)>>
                              \o rest.events,
                   raised |-> rest.raised]
    ELSE WelcomeLoop(Tail(members), recipient, sendFailAt, nSent)

OnMembersAddedActivity(members_added, recipient, sendFailAt) ==
    WelcomeLoop(members_added, recipient, sendFailAt, 0)

----------------------------------------------------------------------------
(* Inputs *)

\* os.environ.get("AZURE_TRANSLATOR_KEY"): unset (None), '' or a key
EnvKeys ==
    { [set |-> FALSE, val |-> ""], [set |-> TRUE, val |-> ""],
      [set |-> TRUE, val |-> "secret"] }

\* _create_translator_client, app.py:32-39: a requests.Session, or None when
\* importing requests raised
Clients == {"Session", "None"}

\* activity.recipient.id, the bot's own channel account
BotId == "bot"
MemberIds == {BotId, "u1"}
MemberSeqs == UNION { [1..n -> MemberIds] : n \in 0..MaxMembers }

\* activity.text values: '', ' ', ' \t\n', 'help', ' HeLP ', '/help',
\* '/Help' + NBSP, '/translate help', '/TRANSLATE HELP', 'helps',
\* KELVIN SIGN + 'elp', 'Hello', '  hi  ', two Sinhala letters,
\* 'a' + U+0D80, U+0D7F + U+0E00
Texts ==
    { <<>>, <<32>>, <<32, 9, 10>>,
      <<104, 101, 108, 112>>, <<32, 72, 101, 76, 80, 32>>,
      <<47, 104, 101, 108, 112>>, <<47, 72, 101, 108, 112, 160>>,
      <<47, 116, 114, 97, 110, 115, 108, 97, 116, 101, 32, 104, 101, 108, 112>>,
      <<47, 84, 82, 65, 78, 83, 76, 65, 84, 69, 32, 72, 69, 76, 80>>,
      <<104, 101, 108, 112, 115>>, <<8490, 101, 108, 112>>,
      <<72, 101, 108, 108, 111>>, <<32, 32, 104, 105, 32, 32>>,
      <<3476, 3510>>, <<97, 3456>>, <<3455, 3584>> }

ActivityTypes == {"message", "conversationUpdate", "invoke"}

\* the Activity when the body could not give one
NoActivity ==
    [type |-> "None", textNone |-> TRUE, text |-> <<>>,
     membersAdded |-> <<>>, recipient |-> BotId]

\* the activities a well-formed JSON body deserializes to
Activities ==
    { [type |-> ty, textNone |-> tn, text |-> tx, membersAdded |-> ms,
       recipient |-> BotId] :
        ty \in ActivityTypes, tn \in {FALSE}, tx \in Texts, ms \in {<<>>} }
    \cup
    { [type |-> ty, textNone |-> TRUE, text |-> <<>>, membersAdded |-> <<>>,
       recipient |-> BotId] : ty \in ActivityTypes }
    \cup
    { [type |-> "conversationUpdate", textNone |-> tn, text |-> tx,
       membersAdded |-> ms, recipient |-> BotId] :
        tn \in {FALSE}, tx \in Texts, ms \in MemberSeqs \ {<<>>} }
    \cup
    { [type |-> "conversationUpdate", textNone |-> TRUE, text |-> <<>>,
       membersAdded |-> ms, recipient |-> BotId] : ms \in MemberSeqs \ {<<>>} }

\* Content-Type header values, cut into pieces so that a piece can be
\* searched for: 'application/json', 'application/json; charset=utf-8',
\* 'text/plain', 'text/plain; note=application/json'
ContentTypes ==
    { <<"application/json">>, <<"application/json", "; charset=utf-8">>,
      <<"text/plain">>, <<"text/plain; note=", "application/json">> }

\* "application/json" in request.headers["Content-Type"], app.py:157
ContainsAppJson(ctype) == \E i \in 1..Len(ctype) : ctype[i] = "application/json"

\* flask's request.is_json: the media type itself is application/json
IsJsonMimetype(ctype) == Len(ctype) >= 1 /\ ctype[1] = "application/json"

\* direct arguments of _detect_language_and_get_target: 'a', ' ', and the
\* code points on both sides of each end of the Sinhala block
DetectAlphabet == {97, 32, 3455, 3456, 3583, 3584}
DetectInputs == UNION { [1..n -> DetectAlphabet] : n \in 0..MaxLen }

----------------------------------------------------------------------------
(* The Flask views, app.py:154-192 *)

NoRequest ==
    [route |-> "none", hasCT |-> FALSE, ctype |-> <<>>, json |-> "unused",
     deser |-> "unused", auth |-> "unused", activity |-> NoActivity,
     sendFailAt |-> 0, up |-> "unused"]

NoResponse ==
    [status |-> 0, body |-> <<>>, escaped |-> "None", events |-> <<>>,
     logged |-> <<>>]

\* an exception leaves the view function: it returns nothing
Escapes(cls) ==
    [status |-> 0, body |-> <<>>, escaped |-> cls, events |-> <<>>,
     logged |-> <<>>]

\* async def aux_func(turn_context), app.py:165-166: every activity type is
\* handed to on_message_activity
AuxFunc(activity, client, key, sendFailAt, up) ==
    OnMessageActivity(activity, client, key, sendFailAt, up)

\* adapter.process_activity(activity, auth_header, aux_func), app.py:169:
\* authenticates, then runs the callback; an invoke activity for which the
\* bot set no response gets the adapter's 501
RunPipeline(activity, h) ==
    [events |-> h.events, raised |-> h.raised,
     status |-> IF activity.type = "invoke" THEN 501 ELSE 0]

ProcessActivity(req, client, key) ==
    IF req.auth = "fail"
    THEN [events |-> <<>>, raised |-> "PermissionError", status |-> 0]
    ELSE RunPipeline(req.activity,
                     AuxFunc(req.activity, client, key, req.sendFailAt, req.up))

\* app.py:168-175: r is what process_activity did
TryProcess(r) ==
    IF r.raised # "None"
    THEN [status |-> 500, body |-> <<"error", r.raised>>, escaped |-> "None",
          events |-> r.events, logged |-> <<"Error processing activity">>]
    ELSE IF r.status # 0
    THEN [status |-> r.status, body |-> <<"response.body">>,
          escaped |-> "None", events |-> r.events, logged |-> <<>>]
    ELSE [status |-> 200, body |-> <<>>, escaped |-> "None",
          events |-> r.events, logged |-> <<>>]

\* messages(), app.py:154-175
Messages(req, client, key) ==
    IF ~req.hasCT
    THEN \* request.headers["Content-Type"] with no such header
         Escapes("KeyError")
    ELSE IF ~ContainsAppJson(req.ctype)
    THEN [status |-> 415, body |-> <<"error", "Invalid content type">>,
          escaped |-> "None", events |-> <<>>, logged |-> <<>>]
    ELSE IF req.json \in {"BadRequest", "UnsupportedMediaType"}
    THEN \* request.json, app.py:158, is outside the try block
         Escapes(req.json)
    ELSE IF req.deser = "raise"
    THEN \* Activity().deserialize(body), app.py:162, is outside the try block
         Escapes("DeserializationError")
    ELSE
    TryProcess(ProcessActivity(req, client, key))

\* what request.json can do once the header passed the test of app.py:157
JsonOutcomes(hasCT, ctype) ==
    IF ~hasCT \/ ~ContainsAppJson(ctype) THEN {"unused"}
    ELSE IF IsJsonMimetype(ctype) THEN {"ok", "BadRequest"}
    ELSE {"UnsupportedMediaType", "None"}

DeserOutcomes(json) ==
    IF json \in {"ok", "None"} THEN {"ok", "raise"} ELSE {"unused"}

AuthOutcomes(deser) == IF deser = "ok" THEN {"ok", "fail"} ELSE {"unused"}

ActivitiesOf(json, auth) ==
    IF auth = "ok" /\ json = "ok" THEN Activities ELSE {NoActivity}

\* a condition that lets the listener start whenever the variable is set
MissingWhenUnset(key) == ~key.set

\* "not os.environ.get(var)", app.py:197
Missing(key) == ~key.set \/ key.val = ""

----------------------------------------------------------------------------
(* The process: python app.py *)

NoUnit ==
    [fn |-> "none", arg |-> <<>>, target |-> "", members |-> <<>>,
     sendFailAt |-> 0, up |-> "unused", code |-> "", out |-> <<>>,
     raised |-> "None", posts |-> <<>>, events |-> <<>>]

\* the module has been imported: lines 19 and 152 have run
Init ==
    /\ pc = "boot"
    /\ TRANSLATOR_KEY \in EnvKeys
    /\ translator_client \in Clients
    /\ startLog = <<>>
    /\ handled = 0
    /\ request = NoRequest
    /\ response = NoResponse
    /\ unit = NoUnit

\* the __main__ block, app.py:194-207
Main ==
    /\ pc = "boot"
    /\ IF Missing(TRANSLATOR_KEY)
       THEN /\ startLog' = <<"ERROR Missing required environment variables",
                             "INFO Please set the following environment variables">>
            /\ pc' = "declined"
       ELSE /\ startLog' = <<"INFO Starting Translation Bot...">>
            /\ pc' = "serving"
    /\ UNCHANGED <<TRANSLATOR_KEY, translator_client, handled, request,
                   response, unit>>

\* POST /api/messages, app.py:154-175
messages ==
    /\ pc = "serving"
    /\ request.route = "none"
    /\ handled < MaxRequests
    /\ \E hasCT \in BOOLEAN :
       \E ctype \in (IF hasCT THEN ContentTypes ELSE {<<>>}) :
       \E json \in JsonOutcomes(hasCT, ctype) :
       \E deser \in DeserOutcomes(json) :
       \E auth \in AuthOutcomes(deser) :
       \E activity \in ActivitiesOf(json, auth) :
       \E sendFailAt \in (IF auth = "ok" THEN 0..NSends(activity) ELSE {0}) :
       \E up \in (IF auth = "ok" /\ ReachesTranslate(activity)
                  THEN UpstreamIds ELSE {"unused"}) :
         LET req == [route |-> "/api/messages", hasCT |-> hasCT,
                     ctype |-> ctype, json |-> json, deser |-> deser,
                     auth |-> auth, activity |-> activity,
                     sendFailAt |-> sendFailAt, up |-> up]
         IN  /\ request' = req
             /\ response' = Messages(req, translator_client, TRANSLATOR_KEY)
    /\ handled' = handled + 1
    /\ UNCHANGED <<pc, TRANSLATOR_KEY, translator_client, startLog, unit>>

\* GET /health, app.py:177-180
health_check ==
    /\ pc = "serving"
    /\ request.route = "none"
    /\ handled < MaxRequests
    /\ request' = [NoRequest EXCEPT !.route = "/health"]
    /\ response' = [NoResponse EXCEPT !.status = 200,
                                      !.body = <<"status", "healthy",
                                                 "service", "translation-bot">>]
    /\ handled' = handled + 1
    /\ UNCHANGED <<pc, TRANSLATOR_KEY, translator_client, startLog, unit>>

\* GET /, app.py:182-192
home ==
    /\ pc = "serving"
    /\ request.route = "none"
    /\ handled < MaxRequests
    /\ request' = [NoRequest EXCEPT !.route = "/"]
    /\ response' = [NoResponse EXCEPT !.status = 200,
                                      !.body = <<"message",
                                                 "Translation Bot is running!">>]
    /\ handled' = handled + 1
    /\ UNCHANGED <<pc, TRANSLATOR_KEY, translator_client, startLog, unit>>

\* the view function has returned and the listener, app.py:207, has written
\* the response: the request's objects are gone
request_done ==
    /\ pc = "serving"
    /\ request.route # "none"
    /\ request' = NoRequest
    /\ response' = NoResponse
    /\ UNCHANGED <<pc, TRANSLATOR_KEY, translator_client, startLog, handled,
                   unit>>

Next == Main \/ messages \/ health_check \/ home \/ request_done

Spec == Init /\ [][Next]_vars

----------------------------------------------------------------------------
(* One of the bot's methods called directly on the freshly imported        *)
(* module's bot object, whatever the environment it was imported in.       *)

InitUnit ==
    /\ pc = "unit"
    /\ TRANSLATOR_KEY \in EnvKeys
    /\ translator_client \in Clients
    /\ startLog = <<>>
    /\ handled = 0
    /\ request = NoRequest
    /\ response = NoResponse
    /\ unit = NoUnit

\* bot._detect_language_and_get_target(text)
CallDetect ==
    /\ pc = "unit"
    /\ unit.fn = "none"
    /\ \E text \in DetectInputs :
         unit' = [NoUnit EXCEPT !.fn = "_detect_language_and_get_target",
                                !.arg = text,
                                !.code = DetectLanguageAndGetTarget(text)]
    /\ UNCHANGED <<pc, TRANSLATOR_KEY, translator_client, startLog, handled,
                   request, response>>

\* await bot.translate_text(text, target_language)
CallTranslate ==
    /\ pc = "unit"
    /\ unit.fn = "none"
    /\ \E text \in {<<72, 101, 108, 108, 111>>, <<3476, 3510>>} :
       \E target_language \in {"en", "si"} :
       \E up \in UpstreamIds :
         LET t == TranslateText(translator_client, TRANSLATOR_KEY, text,
                                target_language, up)
         IN  unit' = [NoUnit EXCEPT !.fn = "translate_text", !.arg = text,
                                    !.target = target_language, !.up = up,
                                    !.out = t.ret, !.raised = t.raised,
                                    !.posts = t.posts]
    /\ UNCHANGED <<pc, TRANSLATOR_KEY, translator_client, startLog, handled,
                   request, response>>

\* await bot.on_members_added_activity(members_added, turn_context)
CallMembersAdded ==
    /\ pc = "unit"
    /\ unit.fn = "none"
    /\ \E members \in MemberSeqs :
       \E sendFailAt \in 0..Len(members) :
         LET r == OnMembersAddedActivity(members, BotId, sendFailAt)
         IN  unit' = [NoUnit EXCEPT !.fn = "on_members_added_activity",
                                    !.members = members,
                                    !.sendFailAt = sendFailAt,
                                    !.raised = r.raised, !.events = r.events]
    /\ UNCHANGED <<pc, TRANSLATOR_KEY, translator_client, startLog, handled,
                   request, response>>

NextUnit == CallDetect \/ CallTranslate \/ CallMembersAdded

SpecUnit == InitUnit /\ [][NextUnit]_vars

----------------------------------------------------------------------------
(* Properties *)

\* the last request was a POST /api/messages whose activity reached the
\* callback given to process_activity
HandlerRan ==
    /\ request.route = "/api/messages"
    /\ request.deser = "ok"
    /\ request.auth = "ok"

IsSend(e) == e.op = "send_activity"
IsTranslate(e) == e.op = "translate_text"
NotPost(e) == e.op # "post"

\* the members of a members_added list that are not the bot
RECURSIVE OtherMembers(_, _)
OtherMembers(members, recipient) ==
    IF members = <<>> THEN 0
    ELSE (IF Head(members) # recipient THEN 1 ELSE 0)
         + OtherMembers(Tail(members), recipient)

OnlyWhitespace(text) == \A i \in 1..Len(text) : IsSpace(text[i])

HasSinhala(text) == \E i \in 1..Len(text) : text[i] \in 3456..3583

KeyAbsentOrEmpty == ~TRANSLATOR_KEY.set \/ TRANSLATOR_KEY.val = ""

\* C1: a members-added activity delivered to POST /api/messages, with every
\* send_activity call succeeding, gets one welcome message per added member
\* other than the bot and no translate_text call.
C1_WelcomePerMember ==
    (/\ HandlerRan
     /\ request.activity.type = "conversationUpdate"
     /\ request.activity.membersAdded # <<>>
     /\ request.sendFailAt = 0)
    => /\ Len(SelectSeq(response.events, IsSend))
            = OtherMembers(request.activity.membersAdded,
                           request.activity.recipient)
       /\ \A i \in 1..Len(response.events) :
            /\ ~IsTranslate(response.events[i])
            /\ IsSend(response.events[i])
                 => response.events[i].text = WelcomeText

\* C2: no exception leaves messages() once the Content-Type test has
\* passed; whatever fails after it is answered with HTTP 500.
C2_NoExceptionEscapes ==
    (/\ request.route = "/api/messages"
     /\ request.hasCT
     /\ ContainsAppJson(request.ctype))
    => /\ response.escaped = "None"
       /\ (request.json \notin {"ok", "None"} \/ request.deser # "ok"
           \/ request.auth # "ok")
            => response.status = 500

\* C3: a POST /api/messages whose Content-Type is absent or is not
\* application/json is answered with HTTP 415, and nothing is handled or
\* sent for it.
C3_NonJsonIs415 ==
    (/\ request.route = "/api/messages"
     /\ (~request.hasCT \/ ~IsJsonMimetype(request.ctype)))
    => /\ response.status = 415
       /\ response.escaped = "None"
       /\ response.events = <<>>

\* C4: when the text, trimmed and lower-cased, is a help keyword, the only
\* call on_message_activity makes is one send_activity of the help text: no
\* typing indicator, no translate_text, no outbound POST.
C4_HelpOnly ==
    (/\ HandlerRan
     /\ ~request.activity.textNone
     /\ Lower(Strip(request.activity.text)) \in HelpKeywords)
    => /\ Len(response.events) = 1
       /\ response.events[1].op = "send_activity"
       /\ response.events[1].kind = "message"
       /\ response.events[1].text = HelpText

\* C4: ' HeLP ' was answered with the help text and HTTP 200
C4_Witness ==
    /\ HandlerRan
    /\ request.activity.text = <<32, 72, 101, 76, 80, 32>>
    /\ ~request.activity.textNone
    /\ response.status = 200
    /\ Len(response.events) = 1
    /\ response.events[1].text = HelpText

\* C5: when the text is empty or only whitespace, the only call
\* on_message_activity makes is one send_activity of the fixed prompt.
C5_PromptOnly ==
    (/\ HandlerRan
     /\ ~request.activity.textNone
     /\ OnlyWhitespace(request.activity.text))
    => /\ Len(response.events) = 1
       /\ response.events[1].op = "send_activity"
       /\ response.events[1].kind = "message"
       /\ response.events[1].text = <<"Please send some text to translate!">>

\* C5: ' \t\n' was answered with the prompt and HTTP 200
C5_Witness ==
    /\ HandlerRan
    /\ ~request.activity.textNone
    /\ request.activity.text = <<32, 9, 10>>
    /\ response.status = 200
    /\ Len(response.events) = 1
    /\ response.events[1].text = PromptText

\* C6: translate_text never raises; it returns a non-empty string, which
\* after any upstream failure is "Sorry, translation failed: " followed by
\* the error description, and after a success is the formatted translation.
C6_TranslateNeverRaises ==
    unit.fn = "translate_text"
    => /\ unit.raised = "None"
       /\ Len(unit.out) >= 1
       /\ (translator_client # "None" /\ ~KeyAbsentOrEmpty)
            => IF unit.up \in {"ok", "ok_no_detected"}
               THEN /\ unit.out[1] = "**Translated** ("
                    /\ unit.out[4] = unit.target
                    /\ unit.out[6] = "X"
               ELSE /\ Len(unit.out) = 2
                    /\ unit.out[1] = "Sorry, translation failed: "
                    /\ unit.out[2] # ""

\* C6: a 200 answer without translations came back as the failure string
C6_Witness ==
    /\ unit.fn = "translate_text"
    /\ unit.up = "no_translations"
    /\ unit.raised = "None"
    /\ Len(unit.out) = 2
    /\ unit.out[1] = "Sorry, translation failed: "

\* C7: _detect_language_and_get_target returns 'en' exactly when some
\* character lies in U+0D80..U+0DFF, 'si' otherwise, and nothing else.
C7_DetectRange ==
    unit.fn = "_detect_language_and_get_target"
    => /\ unit.code \in {"en", "si"}
       /\ unit.code = "en" <=> HasSinhala(unit.arg)
       /\ unit.raised = "None"

\* C7: 'a' + U+0DFF, the upper end of the block, gave 'en'
C7_Witness ==
    /\ unit.fn = "_detect_language_and_get_target"
    /\ unit.arg = <<97, 3583>>
    /\ unit.code = "en"

\* C8: with AZURE_TRANSLATOR_KEY unset or empty the process logs the missing
\* variable, never serves and handles no request; it serves only with a key.
C8_NoListenerWithoutKey ==
    /\ KeyAbsentOrEmpty
         => /\ pc \in {"boot", "declined"}
            /\ handled = 0
            /\ request = NoRequest
            /\ response = NoResponse
    /\ pc = "declined"
         => /\ KeyAbsentOrEmpty
            /\ Len(startLog) >= 1
            /\ startLog[1] = "ERROR Missing required environment variables"
    /\ pc = "serving" => ~KeyAbsentOrEmpty

\* C8: started with the variable set to '', the process declined to serve
C8_Witness ==
    /\ pc = "declined"
    /\ TRANSLATOR_KEY.set
    /\ TRANSLATOR_KEY.val = ""
    /\ Len(startLog) >= 1

\* C9 as stated: every text message that is not a help command gets exactly
\* one translate_text call, and a non-empty one exactly the events detect,
\* typing, translate_text, reply.
C9_Original ==
    (/\ HandlerRan
     /\ request.activity.type = "message"
     /\ ~request.activity.textNone
     /\ Lower(Strip(request.activity.text)) \notin HelpKeywords)
    => /\ Len(SelectSeq(response.events, IsTranslate)) = 1
       /\ ~OnlyWhitespace(request.activity.text)
            => Len(SelectSeq(response.events, NotPost)) = 4

\* the events C9 expects for a trimmed text um, a reply ret and the number
\* of the send_activity call that raised
C9_Expected(um, ret, sendFailAt) ==
    LET tgt == IF HasSinhala(um) THEN "en" ELSE "si" IN
    <<[op |-> "detect", kind |-> "", text |-> <<>>, arg |-> um,
       target |-> tgt, ok |-> TRUE],
      [op |-> "send_activity", kind |-> "typing", text |-> <<>>,
       arg |-> <<>>, target |-> "", ok |-> sendFailAt # 1],
      [op |-> "translate_text", kind |-> "", text |-> ret, arg |-> um,
       target |-> tgt, ok |-> TRUE],
      [op |-> "send_activity", kind |-> "message", text |-> ret,
       arg |-> <<>>, target |-> "", ok |-> sendFailAt # 2]>>

\* C9, amended: a whitespace-only message gets no translate_text call; a
\* message whose trimmed text is non-empty and not a help keyword gets the
\* events detect(trimmed), typing, translate_text(trimmed, target), reply
\* with the returned string, in this order and no others, cut short only at
\* a send_activity call that raises.
C9_OrderedEvents ==
    (/\ HandlerRan
     /\ request.activity.type = "message"
     /\ ~request.activity.textNone
     /\ Lower(Strip(request.activity.text)) \notin HelpKeywords)
    => LET h == SelectSeq(response.events, NotPost)
           um == Strip(request.activity.text)
       IN  IF OnlyWhitespace(request.activity.text)
           THEN Len(SelectSeq(response.events, IsTranslate)) = 0
           ELSE IF request.sendFailAt = 1
           THEN h = SubSeq(C9_Expected(um, <<>>, 1), 1, 2)
           ELSE /\ Len(h) = 4
                /\ h = C9_Expected(um, h[3].text, request.sendFailAt)
                /\ Len(h[3].text) >= 1

\* C9: '  hi  ' was translated: five events with the POST, HTTP 200
C9_Witness ==
    /\ HandlerRan
    /\ request.activity.type = "message"
    /\ ~request.activity.textNone
    /\ request.activity.text = <<32, 32, 104, 105, 32, 32>>
    /\ request.sendFailAt = 0
    /\ request.up = "ok"
    /\ translator_client = "Session"
    /\ response.status = 200
    /\ Len(response.events) = 5
    /\ response.events[5].text[6] = "X"

\* C10 as stated: every translate_text call makes exactly one outbound POST.
C10_Original ==
    unit.fn = "translate_text" => Len(unit.posts) = 1

\* C10, amended: translate_text makes exactly one outbound POST, carrying
\* the text and the target code, when the client exists and the key is
\* non-empty, whatever the outcome; otherwise it makes none.
C10_OnePostWhenConfigured ==
    unit.fn = "translate_text"
    => IF translator_client = "None" \/ KeyAbsentOrEmpty
       THEN unit.posts = <<>>
       ELSE /\ Len(unit.posts) = 1
            /\ unit.posts[1].to = unit.target
            /\ unit.posts[1].text = unit.arg

\* C10: an HTTP 500 from upstream, and still one POST only
C10_Witness ==
    /\ unit.fn = "translate_text"
    /\ unit.up = "http_500"
    /\ translator_client = "Session"
    /\ ~KeyAbsentOrEmpty
    /\ Len(unit.posts) = 1

====
